---- MODULE Spec2Model ----
(***************************************************************************)
(* fuzemill (src/src/main.rs): a workflow helper that binds a git side     *)
(* checkout (worktree + branch), an issue-tracker record and a tmux agent  *)
(* session.  Every invocation of the binary is a process that walks        *)
(* through one handler (handle_start, handle_unstart, handle_merge,        *)
(* handle_done, handle_scan); it blocks on one external command at a time, *)
(* so a handler is modelled as one action per external command, and the    *)
(* repository, the tracker and the tmux server are the shared state.       *)
(***************************************************************************)
EXTENDS Naturals, Sequences, FiniteSets, TLC

\* ------------------------------------------------------------------ bounds
\* Invocations the user makes, one after another, in one behaviour.
MaxRuns == 2

\* Where invocations run: the user's terminal, and the shell of an agent
\* inside a tmux session (which runs while the user's `start` is attached).
User == "user"
Agent == "agent"
Procs == {User, Agent}

\* No process: the owner of a session that does not exist.
NoProc == "none"

\* Issue ids handed to --id, `unstart`, `merge`, or returned by creation.
Ids == {"7", "8"}

\* ------------------------------------------------------------------- paths
\* A path is the sequence of its components; <<>> is both "/" and the empty
\* path "" (neither has a parent or a file name).
PrimaryRoot == <<"w", "acme">>
SubDir == <<"w", "acme", "src">>
NotRepo == <<"tmp">>
\* A linked checkout the user made by hand outside the primary's parent.
ExtraWt == <<"x", "wt">>
ExtraBranch == "8"

HasParent(path) == Len(path) > 0
Parent(path) == SubSeq(path, 1, Len(path) - 1)
HasFileName(path) == Len(path) > 0
FileName(path) == path[Len(path)]
Join(path, name) == Append(path, name)

\* Faulty variant of DirName: the id comes first.
DirName_IdFirst(repo_name, issue_id) == issue_id \o "-" \o repo_name

\* format!("{}-{}", repo_name, issue_id)
DirName(repo_name, issue_id) == repo_name \o "-" \o issue_id

\* base.join(format!("{}-{}", repo_name, issue_id))
DerivedPath(base, repo_name, issue_id) == Join(base, DirName(repo_name, issue_id))

\* format!("fuzemill-{}", issue_id)
SessionName(issue_id) == "fuzemill-" \o issue_id

SessionNames == {SessionName(i) : i \in Ids}

\* The locations a linked checkout can be at in this model.
LinkedPaths ==
    {ExtraWt} \cup {DerivedPath(b, FileName(PrimaryRoot), i) :
                       b \in {Parent(PrimaryRoot), Parent(ExtraWt)}, i \in Ids}

NoWt == "<absent>"
NoRun == [cmd |-> "none", id |-> "", res |-> "none"]

\* No result of create_new_issue_github yet.
NotParsed == [res |-> "none", id |-> <<>>]

Outcomes == {"ok", "nonzero", "spawnfail"}

VARIABLES
    wt,          \* linked checkouts: path -> branch checked out there, or NoWt
    primaryHead, \* branch checked out in the primary checkout
    branches,    \* local branches other than main
    sessions,    \* tmux sessions: name -> process that created it, NoProc if none
    issueStatus, \* tracker: issue id -> the status last written for it
    proc,        \* per invocation: position, arguments, locals, call log
    runs,        \* invocations the user has launched so far
    lastRet,     \* the invocation that returned most recently
    stdout,      \* what `gh issue create` printed, as a sequence of characters
    created      \* what create_new_issue_github made of it

vars == <<wt, primaryHead, branches, sessions, issueStatus,
          proc, runs, lastRet, stdout, created>>
ghvars == <<stdout, created>>
world == <<wt, primaryHead, branches, sessions, issueStatus>>

\* -------------------------------------------------------------- filesystem
WtBranch(path) == IF path \in LinkedPaths THEN wt[path] ELSE NoWt

\* Path::exists()
DirExists(path) ==
    \/ path \in {<<>>, Parent(PrimaryRoot), PrimaryRoot, SubDir, NotRepo, Parent(ExtraWt)}
    \/ WtBranch(path) # NoWt

\* path.join(".git").exists()
HasGit(path) == path = PrimaryRoot \/ WtBranch(path) # NoWt

\* path.join(".git").is_file(): a linked checkout's .git is a file
GitIsFile(path) == WtBranch(path) # NoWt

\* find_git_root: walk up until a .git entry is found; <<"None">> if none.
NoRoot == <<"None">>
RECURSIVE find_git_root(_)
find_git_root(start_path) ==
    IF HasGit(start_path) THEN start_path
    ELSE IF HasParent(start_path) THEN find_git_root(Parent(start_path))
    ELSE NoRoot

\* git rev-parse --abbrev-ref HEAD, run in a directory of checkout `root`
HeadOf(root) ==
    IF root = PrimaryRoot THEN primaryHead
    ELSE IF WtBranch(root) # NoWt THEN WtBranch(root) ELSE ""

\* Branches checked out somewhere (git refuses to delete those).
CheckedOut == {primaryHead} \cup {wt[q] : q \in LinkedPaths}

\* -------------------------------------------------------------- processes
IdleProc ==
    [pc |-> "idle", cmd |-> "none", args |-> "", tmux |-> "", backend |-> "",
     cwd |-> <<>>, git_root |-> <<>>, main_repo_path |-> <<>>,
     is_worktree |-> FALSE, issue_id |-> "", path |-> <<>>,
     current_branch |-> "", attach_ret |-> "none", result |-> "none",
     steps |-> <<>>, last |-> "", prev |-> NoRun, view |-> ""]

\* An external command: what it is for, and the tool that runs it.
Call(c, tool) == [c |-> c, tool |-> tool]

\* The commands an invocation has run so far, in order.
StepNames(r) == [k \in 1..Len(r.steps) |-> r.steps[k].c]

Running(p) == proc[p].pc \notin {"idle", "done"}

\* Process p moves on with record r.  The record of another invocation that
\* has returned is dropped: that process is gone, lastRet keeps its result.
Moved(p, r) ==
    [q \in Procs |-> IF q = p THEN r
                     ELSE IF Running(q) THEN proc[q] ELSE IdleProc]

\* The invocation returns: Ok(()) is "ok", Err is "err", a panic is "panic".
Return(p, r, res) ==
    /\ proc' = Moved(p, [r EXCEPT !.pc = "done", !.result = res])
    /\ lastRet' = [cmd |-> r.cmd, id |-> r.issue_id, res |-> res]
    /\ UNCHANGED ghvars

Goto(p, r, pc) ==
    /\ proc' = Moved(p, [r EXCEPT !.pc = pc])
    /\ UNCHANGED <<lastRet, ghvars>>

\* r after running a command with outcome o: the commands are kept in
\* order, and the outcome of the latest one.
Logged(r, c, tool, o) == [r EXCEPT !.steps = Append(@, Call(c, tool)), !.last = o]

BackendTool(backend) == IF backend = "Beads" THEN "bd" ELSE "gh"

InitRepo ==
    /\ wt = [path \in LinkedPaths |-> IF path = ExtraWt THEN ExtraBranch ELSE NoWt]
    /\ primaryHead = "main"
    /\ branches = {ExtraBranch}
    /\ sessions = [s \in SessionNames |-> NoProc]
    /\ issueStatus = [i \in Ids |-> "open"]
    /\ proc = [p \in Procs |-> IdleProc]
    /\ runs = 0
    /\ lastRet = NoRun

\* No issue is being created through gh.
Init ==
    /\ InitRepo
    /\ stdout = <<>>
    /\ created = NotParsed

\* ------------------------------------------------------------------- main
\* detect_issue_backend: Beads if `bd --version` runs and succeeds.
detect_issue_backend(probe) == IF probe = "ok" THEN "Beads" ELSE "GitHub"

\* Directories an invocation can be launched from.
LaunchDirs == {PrimaryRoot, NotRepo} \cup {q \in LinkedPaths : wt[q] # NoWt}

AllCmds == {"start", "unstart", "merge", "done", "scan"}

\* main (lines 81-100): select the backend once, then dispatch to a command
\* of cmds.  `inside` says whether the shell is inside a tmux session (TMUX
\* is set).  The record of an invocation that has returned is dropped when
\* the next one starts.  The arguments of `start` are drawn where
\* handle_start reads them; handle_done does not read the directory, and
\* the backend is not passed to handle_done and handle_scan.
Launch(p, cmds, inside) ==
    /\ ~Running(p)
    /\ \E cmd \in cmds, probe \in Outcomes :
         \E dir \in (IF cmd = "done" THEN {<<>>} ELSE LaunchDirs),
            issue_id \in (IF cmd \in {"unstart", "merge"} THEN Ids ELSE {""}),
            tmux \in (IF inside THEN {s \in SessionNames : sessions[s] # NoProc}
                      ELSE {""}) :
           proc' = [q \in Procs |->
                      IF q = p
                      THEN [IdleProc EXCEPT
                              !.pc = IF cmd = "done" THEN "done_cmd" ELSE cmd,
                              !.cmd = cmd, !.issue_id = issue_id, !.tmux = tmux,
                              !.backend = IF cmd \in {"done", "scan"} THEN ""
                                          ELSE detect_issue_backend(probe),
                              !.cwd = dir,
                              !.prev = IF \A o \in Procs \ {p} : ~Running(o)
                                       THEN lastRet ELSE NoRun]
                      ELSE IF Running(q) THEN [proc[q] EXCEPT !.prev = NoRun]
                      ELSE IdleProc]
    /\ UNCHANGED <<world, lastRet, ghvars>>

\* The user runs a command in the terminal.
UserLaunch ==
    /\ runs < MaxRuns
    /\ runs' = runs + 1
    /\ Launch(User, AllCmds, FALSE)

\* The agent runs `fuzemill done` in its session, as its prompt tells it to.
AgentDone ==
    /\ UNCHANGED runs
    /\ Launch(Agent, {"done"}, TRUE)

\* ------------------------------------------------------------ handle_start
\* Faulty variant of StartResolve: with neither an id nor creation arguments
\* an issue is created all the same.
StartResolve_NoUsageError(p) ==
    LET r == proc[p]
        root == find_git_root(r.cwd)
        tool == BackendTool(r.backend)
    IN
    /\ r.pc = "start"
    /\ UNCHANGED <<world, runs>>
    /\ \E id \in Ids \cup {""}, create_args \in BOOLEAN :
         LET r0 == [r EXCEPT !.git_root = root,
                             !.args = IF id # "" /\ create_args THEN "both"
                                      ELSE IF id # "" THEN "id"
                                      ELSE IF create_args THEN "create" ELSE "none"]
         IN
         IF root = NoRoot THEN Return(p, r, "err")
         ELSE IF id # "" THEN
           \E o \in Outcomes :
             IF o = "ok"
             THEN Goto(p, [Logged(r0, "exists", tool, o) EXCEPT !.issue_id = id],
                       "s_common")
             ELSE Return(p, Logged(r0, "exists", tool, o), "err")
         ELSE
           \E o \in Outcomes \cup {"badout"} :
             IF o = "ok"
             THEN \E new \in Ids :
                    Goto(p, [Logged(r0, "create", tool, o) EXCEPT !.issue_id = new],
                         "s_common")
             ELSE Return(p, Logged(r0, "create", tool, o), "err")

\* Faulty variant of StartResolve: the result of the existence check or of
\* the creation is not looked at, and `start` goes on with the id.
StartResolve_Unchecked(p) ==
    LET r == proc[p]
        root == find_git_root(r.cwd)
        tool == BackendTool(r.backend)
    IN
    /\ r.pc = "start"
    /\ UNCHANGED <<world, runs>>
    /\ \E id \in Ids \cup {""}, create_args \in BOOLEAN :
         LET r0 == [r EXCEPT !.git_root = root,
                             !.args = IF id # "" /\ create_args THEN "both"
                                      ELSE IF id # "" THEN "id"
                                      ELSE IF create_args THEN "create" ELSE "none"]
         IN
         IF root = NoRoot THEN Return(p, r, "err")
         ELSE IF id # "" THEN
           \E o \in Outcomes :
             Goto(p, [Logged(r0, "exists", tool, o) EXCEPT !.issue_id = id],
                  "s_common")
         ELSE IF create_args THEN
           \E o \in Outcomes \cup {"badout"} : \E new \in Ids :
             Goto(p, [Logged(r0, "create", tool, o) EXCEPT !.issue_id = new],
                  "s_common")
         ELSE Return(p, r0, "err")

\* lines 272-285: locate the repository, then resolve the issue id: existence
\* check of --id (the trailing arguments are then ignored), or creation from
\* the trailing arguments, or a usage error.  "badout" is a creation that
\* exits 0 and prints no usable id.
StartResolve(p) ==
    LET r == proc[p]
        root == find_git_root(r.cwd)
        tool == BackendTool(r.backend)
    IN
    /\ r.pc = "start"
    /\ UNCHANGED <<world, runs>>
    /\ \E id \in Ids \cup {""}, create_args \in BOOLEAN :
         LET r0 == [r EXCEPT !.git_root = root,
                             !.args = IF id # "" /\ create_args THEN "both"
                                      ELSE IF id # "" THEN "id"
                                      ELSE IF create_args THEN "create" ELSE "none"]
         IN
         IF root = NoRoot THEN Return(p, r, "err")
         ELSE IF id # "" THEN
           \E o \in Outcomes :
             IF o = "ok"
             THEN Goto(p, [Logged(r0, "exists", tool, o) EXCEPT !.issue_id = id],
                       "s_common")
             ELSE Return(p, Logged(r0, "exists", tool, o), "err")
         ELSE IF create_args THEN
           \E o \in Outcomes \cup {"badout"} :
             IF o = "ok"
             THEN \E new \in Ids :
                    Goto(p, [Logged(r0, "create", tool, o) EXCEPT !.issue_id = new],
                         "s_common")
             ELSE Return(p, Logged(r0, "create", tool, o), "err")
         ELSE Return(p, r0, "err")

\* get_git_common_dir (lines 769-792) on record r, with the outcome o of
\* `git rev-parse --git-common-dir`: <<main_repo, is_worktree, failed>>.
\* A non-zero exit prints nothing, and the parent of "" is "" itself.
get_git_common_dir(git_root, o) ==
    IF GitIsFile(git_root)
    THEN IF o = "spawnfail" THEN <<(<<>>), TRUE, TRUE>>
         ELSE IF o = "ok" THEN <<PrimaryRoot, TRUE, FALSE>>
         ELSE <<(<<>>), TRUE, FALSE>>
    ELSE <<git_root, FALSE, FALSE>>

\* The record after get_git_common_dir: the query is logged only when made.
AfterCommonDir(r, o) ==
    LET g == get_git_common_dir(r.git_root, o)
        r1 == IF GitIsFile(r.git_root) THEN Logged(r, "common_dir", "git", o) ELSE r
    IN [r1 EXCEPT !.main_repo_path = g[1], !.is_worktree = g[2]]

\* The outcomes of the query that matter: one when no query is made.
CommonDirOutcomes(git_root) == IF GitIsFile(git_root) THEN Outcomes ELSE {"ok"}

\* lines 287-310: the side checkout is named after the primary checkout and
\* placed beside the checkout the command was run from.
StartDerive(p) ==
    LET r == proc[p] IN
    /\ r.pc = "s_common"
    /\ UNCHANGED <<world, runs>>
    /\ \E o \in CommonDirOutcomes(r.git_root) :
         LET r1 == AfterCommonDir([r EXCEPT !.args = ""], o)
             repo_path_for_name == IF r1.is_worktree THEN r1.main_repo_path
                                   ELSE r1.git_root
         IN
         IF get_git_common_dir(r.git_root, o)[3] THEN Return(p, r1, "err")
         ELSE IF ~HasFileName(repo_path_for_name) THEN Return(p, r1, "err")
         ELSE IF ~HasParent(r1.git_root) THEN Return(p, r1, "err")
         ELSE Goto(p, [r1 EXCEPT !.path =
                          DerivedPath(Parent(r1.git_root),
                                      FileName(repo_path_for_name), r1.issue_id)],
                   "s_ensure")

\* git succeeds only when run in a directory that still exists.
GitCanRun(r) == DirExists(r.cwd)

\* Faulty variant of StartEnsure: the worktree is added without looking
\* whether the directory is there already.
StartEnsure_AlwaysAdd(p) ==
    LET r == proc[p] IN
    /\ r.pc = "s_ensure"
    /\ UNCHANGED <<primaryHead, sessions, issueStatus, runs>>
    /\ \E o \in Outcomes :
         LET r1 == Logged(r, "wt_add", "git", o) IN
         IF o = "ok"
         THEN /\ GitCanRun(r)
              /\ ~DirExists(r.path)
              /\ r.issue_id \notin branches
              /\ r.path \in LinkedPaths
              /\ wt' = [wt EXCEPT ![r.path] = r.issue_id]
              /\ branches' = branches \cup {r.issue_id}
              /\ Goto(p, r1, "s_direnv")
         ELSE /\ UNCHANGED <<wt, branches>>
              /\ Return(p, r1, "err")

\* lines 312-319: look whether the directory exists; reuse it when it does.
\* The look and the command that follows are two steps: another invocation
\* can act between them.
StartEnsure(p) ==
    LET r == proc[p] IN
    /\ r.pc = "s_ensure"
    /\ UNCHANGED <<world, runs>>
    /\ IF DirExists(r.path)
       THEN Goto(p, Logged(r, "reuse", "fs", "ok"), "s_direnv")
       ELSE Goto(p, r, "s_add")

\* lines 320-332: `git worktree add -b <issue_id> <path>`; a failure is
\* fatal.  git refuses a path that exists and a branch that exists.
StartAdd(p) ==
    LET r == proc[p] IN
    /\ r.pc = "s_add"
    /\ UNCHANGED <<primaryHead, sessions, issueStatus, runs>>
    /\ \E o \in Outcomes :
         LET r1 == Logged(r, "wt_add", "git", o) IN
         IF o = "ok"
         THEN /\ GitCanRun(r)
              /\ ~DirExists(r.path)
              /\ r.issue_id \notin branches
              /\ r.path \in LinkedPaths
              /\ wt' = [wt EXCEPT ![r.path] = r.issue_id]
              /\ branches' = branches \cup {r.issue_id}
              /\ Goto(p, r1, "s_direnv")
         ELSE /\ UNCHANGED <<wt, branches>>
              /\ Return(p, r1, "err")

\* lines 335-344: `direnv allow` when the checkout holds an .envrc; its
\* result is dropped and nothing of the modelled state depends on it.
StartDirenv(p) ==
    LET r == proc[p] IN
    /\ r.pc = "s_direnv"
    /\ UNCHANGED <<world, runs>>
    /\ \E envrc \in BOOLEAN, o \in Outcomes : Goto(p, r, "s_hooked")

\* update_issue_status (lines 384-440) with outcome o of the tracker command:
\* TRUE when it returns Err.  Beads: Err on a non-zero exit; GitHub: a failed
\* label edit is only reported.
UpdateStatusErr(backend, o) ==
    IF backend = "Beads" THEN o # "ok" ELSE o = "spawnfail"

\* The tracker after a status update that ran with outcome o: `bd update
\* <id> --status <status>`, or `gh issue edit <id> --add-label
\* status:<status>`.
StatusWritten(backend, issue_id, status, o) ==
    issueStatus' = IF o = "ok" THEN [issueStatus EXCEPT ![issue_id] = status]
                   ELSE issueStatus

\* Faulty variant of StartHooked: the error of the status update is
\* propagated with `?` instead of being reported as a warning.
StartHooked_Propagates(p) ==
    LET r == proc[p] IN
    /\ r.pc = "s_hooked"
    /\ UNCHANGED <<wt, primaryHead, branches, sessions, runs>>
    /\ \E o \in Outcomes :
         /\ StatusWritten(r.backend, r.issue_id, "hooked", o)
         /\ IF UpdateStatusErr(r.backend, o)
            THEN Return(p, Logged(r, "hooked", BackendTool(r.backend), o), "err")
            ELSE Goto(p, Logged(r, "hooked", BackendTool(r.backend), o), "s_launch")

\* lines 349-352: best-effort status update to "hooked".
StartHooked(p) ==
    LET r == proc[p] IN
    /\ r.pc = "s_hooked"
    /\ UNCHANGED <<wt, primaryHead, branches, sessions, runs>>
    /\ \E o \in Outcomes :
         /\ StatusWritten(r.backend, r.issue_id, "hooked", o)
         /\ Goto(p, Logged(r, "hooked", BackendTool(r.backend), o), "s_launch")

\* lines 446-449, 508-511: the command the agent's prompt names for reading
\* the issue, chosen by the backend passed down from main.
issue_view_cmd(backend) == IF backend = "Beads" THEN "bd show" ELSE "gh issue view"

\* spawn_gemini_tmux / spawn_claude_tmux up to the attach (lines 442-484,
\* 504-542): `tmux new-session -d -s <session_name>`.  tmux refuses a name
\* that is in use.  The two launchers differ in the agent command only.
SpawnNewSession(p, r) ==
    \E o \in Outcomes :
      LET r1 == [Logged(r, "new_session", "tmux", o) EXCEPT
                   !.view = issue_view_cmd(r.backend)]
      IN
      IF o = "ok"
      THEN /\ sessions[SessionName(r.issue_id)] = NoProc
           /\ sessions' = [sessions EXCEPT ![SessionName(r.issue_id)] = p]
           /\ Goto(p, r1, "s_attach")
      ELSE /\ UNCHANGED sessions
           /\ Return(p, r1, "err")

\* Faulty variant of StartLaunch: a failed launch is rolled back by removing
\* the side checkout.
StartLaunch_RollsBack(p) ==
    LET r == proc[p] IN
    /\ r.pc = "s_launch"
    /\ UNCHANGED <<primaryHead, branches, issueStatus, runs>>
    /\ \E agent \in {"gemini", "claude", "other"} :
         IF agent \in {"gemini", "claude"}
         THEN /\ SpawnNewSession(p, r)
              /\ wt' = IF proc'[p].pc = "done" /\ r.path \in LinkedPaths
                       THEN [wt EXCEPT ![r.path] = NoWt] ELSE wt
         ELSE /\ UNCHANGED sessions
              /\ wt' = IF r.path \in LinkedPaths
                       THEN [wt EXCEPT ![r.path] = NoWt] ELSE wt
              /\ Return(p, r, "err")

\* lines 354-359: the session is named after the issue; an agent other than
\* "gemini" and "claude" is an error.
StartLaunch(p) ==
    LET r == proc[p] IN
    /\ r.pc = "s_launch"
    /\ UNCHANGED <<wt, primaryHead, branches, issueStatus, runs>>
    /\ \E agent \in {"gemini", "claude", "other"} :
         IF agent \in {"gemini", "claude"}
         THEN SpawnNewSession(p, r)
         ELSE /\ UNCHANGED sessions
              /\ Return(p, r, "err")

\* Faulty variant of StartAttach: the attach is not waited for (the command
\* is started and control returns as if the session had ended).
StartAttach_NoWait(p) ==
    LET r == proc[p] IN
    /\ r.pc = "s_attach"
    /\ UNCHANGED <<world, runs>>
    /\ \/ Goto(p, [Logged(r, "attach", "tmux", "ok") EXCEPT !.attach_ret = "ended"],
               "s_in_progress")
       \/ Return(p, Logged(r, "attach", "tmux", "spawnfail"), "err")

\* lines 490-496, 548-553: `tmux attach -t <session_name>` is started.  Only
\* a failure to run tmux at all is an error; once started, the call blocks.
StartAttach(p) ==
    LET r == proc[p] IN
    /\ r.pc = "s_attach"
    /\ UNCHANGED <<world, runs>>
    /\ \/ Goto(p, r, "s_attached")
       \/ Return(p, Logged(r, "attach", "tmux", "spawnfail"), "err")

\* lines 490-501, 548-555: the blocked attach returns when the session is
\* gone ("ended"), when the user detaches ("detached", the session lives
\* on), or at once with a non-zero exit ("nonzero", e.g. no terminal); its
\* exit status is dropped.
StartAttachReturn(p) ==
    LET r == proc[p]
        alive == sessions[SessionName(r.issue_id)] # NoProc
    IN
    /\ r.pc = "s_attached"
    /\ UNCHANGED <<world, runs>>
    /\ \/ /\ ~alive
          /\ \E o \in {"ok", "nonzero"} :
               Goto(p, [Logged(r, "attach", "tmux", o) EXCEPT !.attach_ret = "ended"],
                    "s_in_progress")
       \/ /\ alive
          /\ Goto(p, [Logged(r, "attach", "tmux", "ok") EXCEPT !.attach_ret = "detached"],
                  "s_in_progress")
       \/ /\ alive
          /\ Goto(p, [Logged(r, "attach", "tmux", "nonzero") EXCEPT !.attach_ret = "nonzero"],
                  "s_in_progress")

\* Faulty variant of StartInProgress: the status update after the session
\* is left out.
StartInProgress_Skipped(p) ==
    LET r == proc[p] IN
    /\ r.pc = "s_in_progress"
    /\ UNCHANGED <<world, runs>>
    /\ Goto(p, r, "s_cleanup")

\* Faulty variant of StartInProgress: the backend is probed again for the
\* second status update instead of using the one main selected.
StartInProgress_Redetect(p) ==
    LET r == proc[p] IN
    /\ r.pc = "s_in_progress"
    /\ UNCHANGED <<wt, primaryHead, branches, sessions, runs>>
    /\ \E o \in Outcomes, probe \in Outcomes :
         LET again == detect_issue_backend(probe) IN
         /\ StatusWritten(again, r.issue_id, "in_progress", o)
         /\ Goto(p, Logged(r, "in_progress", BackendTool(again), o), "s_cleanup")

\* lines 361-364: best-effort status update to "in_progress".
StartInProgress(p) ==
    LET r == proc[p] IN
    /\ r.pc = "s_in_progress"
    /\ UNCHANGED <<wt, primaryHead, branches, sessions, runs>>
    /\ \E o \in Outcomes :
         /\ StatusWritten(r.backend, r.issue_id, "in_progress", o)
         /\ Goto(p, Logged(r, "in_progress", BackendTool(r.backend), o), "s_cleanup")

\* `git worktree remove <path>` with outcome o: it can succeed only on a
\* registered linked checkout.
WorktreeRemoved(r, path, o) ==
    IF o = "ok"
    THEN /\ GitCanRun(r)
         /\ WtBranch(path) # NoWt
         /\ wt' = [wt EXCEPT ![path] = NoWt]
    ELSE UNCHANGED wt

\* Faulty variant of StartCleanup: a non-zero exit of the cleanup is treated
\* as in `unstart`, as an error.
StartCleanup_Strict(p) ==
    LET r == proc[p] IN
    /\ r.pc = "s_cleanup"
    /\ UNCHANGED <<primaryHead, branches, sessions, issueStatus, runs>>
    /\ \E o \in Outcomes :
         /\ WorktreeRemoved(r, r.path, o)
         /\ Return(p, Logged(r, "wt_remove", "git", o),
                   IF o = "ok" THEN "ok" ELSE "err")

\* Faulty variant of StartCleanup: the side checkout is left alone while a
\* session named after the issue is alive.
StartCleanup_Guarded(p) ==
    LET r == proc[p] IN
    /\ r.pc = "s_cleanup"
    /\ UNCHANGED <<primaryHead, branches, sessions, issueStatus, runs>>
    /\ \E o \in Outcomes :
         /\ o = "ok" => sessions[SessionName(r.issue_id)] = NoProc
         /\ WorktreeRemoved(r, r.path, o)
         /\ Return(p, Logged(r, "wt_remove", "git", o),
                   IF o = "spawnfail" THEN "err" ELSE "ok")

\* Faulty variant of StartCleanup: after removing the side checkout the
\* branch made for it is deleted too.
StartCleanup_DeletesBranch(p) ==
    LET r == proc[p] IN
    /\ r.pc = "s_cleanup"
    /\ UNCHANGED <<primaryHead, sessions, issueStatus, runs>>
    /\ \E o \in Outcomes :
         /\ WorktreeRemoved(r, r.path, o)
         /\ branches' = IF o = "ok" THEN branches \ {r.issue_id} ELSE branches
         /\ Return(p, Logged(r, "wt_remove", "git", o),
                   IF o = "spawnfail" THEN "err" ELSE "ok")

\* lines 366-381: `git worktree remove <path>`; a non-zero exit is a warning.
StartCleanup(p) ==
    LET r == proc[p] IN
    /\ r.pc = "s_cleanup"
    /\ UNCHANGED <<primaryHead, branches, sessions, issueStatus, runs>>
    /\ \E o \in Outcomes :
         /\ WorktreeRemoved(r, r.path, o)
         /\ Return(p, Logged(r, "wt_remove", "git", o),
                   IF o = "spawnfail" THEN "err" ELSE "ok")

\* ------------------------------------------------------------- environment
\* The agent running in a session exits, which ends the session.
AgentExit(s) ==
    /\ sessions[s] # NoProc
    /\ sessions' = [sessions EXCEPT ![s] = NoProc]
    /\ UNCHANGED <<wt, primaryHead, branches, issueStatus,
                   proc, runs, lastRet, ghvars>>

\* The user switches the primary checkout to another branch.
UserCheckout(b) ==
    /\ b # primaryHead
    /\ b \in branches \cup {"main"}
    /\ b \notin {wt[q] : q \in LinkedPaths}
    /\ primaryHead' = b
    /\ UNCHANGED <<wt, branches, sessions, issueStatus,
                   proc, runs, lastRet, ghvars>>

\* ---------------------------------------------------------- handle_unstart
\* lines 659-662: locate the repository and the primary checkout.
UnstartLocate(p) ==
    LET r == proc[p]
        root == find_git_root(r.cwd)
    IN
    /\ r.pc = "unstart"
    /\ UNCHANGED <<world, runs>>
    /\ IF root = NoRoot THEN Return(p, r, "err")
       ELSE \E o \in CommonDirOutcomes(root) :
              LET r1 == AfterCommonDir([r EXCEPT !.git_root = root], o) IN
              IF get_git_common_dir(root, o)[3] THEN Return(p, r1, "err")
              ELSE Goto(p, r1, "u_target")

\* The caller stands in the checkout to remove (lines 675 and 736).
OwnCheckout(r) == r.is_worktree /\ r.current_branch = r.issue_id

\* Faulty variant of UnstartTarget: the derived path is taken as the target
\* without looking whether it exists.
UnstartTarget_NoExistCheck(p) ==
    LET r == proc[p] IN
    /\ r.pc = "u_target"
    /\ UNCHANGED <<world, runs>>
    /\ \E o \in Outcomes :
         LET r1 == [Logged(r, "cur_branch", "git", o) EXCEPT
                      !.current_branch = IF o = "ok" THEN HeadOf(r.git_root) ELSE ""]
             repo_dirname == IF HasFileName(r.main_repo_path)
                             THEN FileName(r.main_repo_path) ELSE "unknown"
         IN
         IF o = "spawnfail" THEN Return(p, r1, "err")
         ELSE IF OwnCheckout(r1)
         THEN IF DirExists(r.main_repo_path) /\ r.main_repo_path # <<>>
              THEN Goto(p, [Logged(r1, "chdir", "os", "ok") EXCEPT
                              !.path = r.git_root, !.cwd = r.main_repo_path],
                        "u_remove")
              ELSE Return(p, Logged(r1, "chdir", "os", "nonzero"), "err")
         ELSE IF ~HasParent(r.main_repo_path) THEN Return(p, r1, "panic")
         ELSE Goto(p, [r1 EXCEPT !.path = DerivedPath(Parent(r.main_repo_path),
                                                      repo_dirname, r.issue_id)],
                   "u_remove")

\* Faulty variant of UnstartTarget: the caller's own checkout is removed
\* without first moving to the primary root.
UnstartTarget_NoChdir(p) ==
    LET r == proc[p] IN
    /\ r.pc = "u_target"
    /\ UNCHANGED <<world, runs>>
    /\ \E o \in Outcomes :
         LET r1 == [Logged(r, "cur_branch", "git", o) EXCEPT
                      !.current_branch = IF o = "ok" THEN HeadOf(r.git_root) ELSE ""]
             repo_dirname == IF HasFileName(r.main_repo_path)
                             THEN FileName(r.main_repo_path) ELSE "unknown"
         IN
         IF o = "spawnfail" THEN Return(p, r1, "err")
         ELSE IF OwnCheckout(r1)
         THEN Goto(p, [r1 EXCEPT !.path = r.git_root], "u_remove")
         ELSE IF ~HasParent(r.main_repo_path) THEN Return(p, r1, "panic")
         ELSE LET probable_path == DerivedPath(Parent(r.main_repo_path),
                                               repo_dirname, r.issue_id)
              IN IF DirExists(probable_path)
                 THEN Goto(p, [r1 EXCEPT !.path = probable_path], "u_remove")
                 ELSE Return(p, r1, "err")

\* lines 670-700: get_current_branch (a non-zero exit yields ""), then the
\* target: the caller's own checkout, after moving to the primary root, or
\* the sibling of the primary root named after the issue, which must exist.
UnstartTarget(p) ==
    LET r == proc[p] IN
    /\ r.pc = "u_target"
    /\ UNCHANGED <<world, runs>>
    /\ \E o \in Outcomes :
         LET r1 == [Logged(r, "cur_branch", "git", o) EXCEPT
                      !.current_branch = IF o = "ok" THEN HeadOf(r.git_root) ELSE ""]
             repo_dirname == IF HasFileName(r.main_repo_path)
                             THEN FileName(r.main_repo_path) ELSE "unknown"
         IN
         IF o = "spawnfail" THEN Return(p, r1, "err")
         ELSE IF OwnCheckout(r1)
         THEN IF DirExists(r.main_repo_path) /\ r.main_repo_path # <<>>
              THEN Goto(p, [Logged(r1, "chdir", "os", "ok") EXCEPT
                              !.path = r.git_root, !.cwd = r.main_repo_path],
                        "u_remove")
              ELSE Return(p, Logged(r1, "chdir", "os", "nonzero"), "err")
         ELSE IF ~HasParent(r.main_repo_path) THEN Return(p, r1, "panic")
         ELSE LET probable_path == DerivedPath(Parent(r.main_repo_path),
                                               repo_dirname, r.issue_id)
              IN IF DirExists(probable_path)
                 THEN Goto(p, [r1 EXCEPT !.path = probable_path], "u_remove")
                 ELSE Return(p, r1, "err")

\* lines 706-718: `git worktree remove <target>`; any failure is fatal.
UnstartRemove(p) ==
    LET r == proc[p] IN
    /\ r.pc = "u_remove"
    /\ UNCHANGED <<primaryHead, branches, sessions, issueStatus, runs>>
    /\ \E o \in Outcomes :
         /\ WorktreeRemoved(r, r.path, o)
         /\ IF o = "ok" THEN Goto(p, Logged(r, "wt_remove", "git", o), "u_branch_del")
            ELSE Return(p, Logged(r, "wt_remove", "git", o), "err")

\* lines 720-732: `git branch -D <issue_id>`; a non-zero exit is a warning.
\* Then, if the caller stood in the removed checkout, a shell is spawned.
UnstartBranchDelete(p) ==
    LET r == proc[p] IN
    /\ r.pc = "u_branch_del"
    /\ UNCHANGED <<wt, primaryHead, sessions, issueStatus, runs>>
    /\ \E o \in Outcomes :
         LET r1 == Logged(r, "branch_del", "git", o) IN
         /\ IF o = "ok"
            THEN /\ GitCanRun(r)
                 /\ r.issue_id \in branches
                 /\ r.issue_id \notin CheckedOut
                 /\ branches' = branches \ {r.issue_id}
            ELSE UNCHANGED branches
         /\ IF o = "spawnfail" THEN Return(p, r1, "err")
            ELSE IF OwnCheckout(r) THEN Goto(p, r1, "u_shell")
            ELSE Return(p, r1, "ok")

\* spawn_shell (lines 744-755), called at lines 734-741: an interactive
\* shell in the primary root; its failure is the command's failure.
UnstartShell(p) ==
    LET r == proc[p] IN
    /\ r.pc = "u_shell"
    /\ UNCHANGED <<world, runs>>
    /\ \E o \in Outcomes :
         Return(p, Logged(r, "shell", "sh", o), IF o = "ok" THEN "ok" ELSE "err")

\* ------------------------------------------------------------ handle_merge
\* Faulty variant of MergeLocate: the check for a linked checkout is missing.
MergeLocate_NoCheck(p) ==
    LET r == proc[p]
        root == find_git_root(r.cwd)
    IN
    /\ r.pc = "merge"
    /\ UNCHANGED <<world, runs>>
    /\ IF root = NoRoot THEN Return(p, r, "err")
       ELSE \E o \in CommonDirOutcomes(root) :
              LET r1 == AfterCommonDir([r EXCEPT !.git_root = root], o) IN
              IF get_git_common_dir(root, o)[3] THEN Return(p, r1, "err")
              ELSE Goto(p, r1, "m_release")

\* lines 128-134: merge runs from the primary checkout only.
MergeLocate(p) ==
    LET r == proc[p]
        root == find_git_root(r.cwd)
    IN
    /\ r.pc = "merge"
    /\ UNCHANGED <<world, runs>>
    /\ IF root = NoRoot THEN Return(p, r, "err")
       ELSE \E o \in CommonDirOutcomes(root) :
              LET r1 == AfterCommonDir([r EXCEPT !.git_root = root], o) IN
              IF get_git_common_dir(root, o)[3] THEN Return(p, r1, "err")
              ELSE IF r1.is_worktree THEN Return(p, r1, "err")
              ELSE Goto(p, r1, "m_release")

\* lines 136-155: remove the side checkout of the issue, if there is one, so
\* that its branch is not locked; a non-zero exit is a warning.
MergeRelease(p) ==
    LET r == proc[p]
        repo_dirname == IF HasFileName(r.git_root) THEN FileName(r.git_root)
                        ELSE "unknown"
        worktree_path == DerivedPath(IF HasParent(r.git_root) THEN Parent(r.git_root)
                                     ELSE <<".">>,
                                     repo_dirname, r.issue_id)
    IN
    /\ r.pc = "m_release"
    /\ UNCHANGED <<primaryHead, branches, sessions, issueStatus, runs>>
    /\ IF DirExists(worktree_path)
       THEN \E o \in Outcomes :
              LET r1 == [Logged(r, "wt_remove", "git", o) EXCEPT !.path = worktree_path] IN
              /\ WorktreeRemoved(r, worktree_path, o)
              /\ IF o = "spawnfail" THEN Return(p, r1, "err")
                 ELSE Goto(p, r1, "m_pr")
       ELSE /\ UNCHANGED wt
            /\ Goto(p, [r EXCEPT !.path = worktree_path], "m_pr")

\* lines 157-172: `gh pr merge <issue_id> --merge --delete-branch`; fatal on
\* failure.  On success gh deletes the local branch too, leaving it first if
\* the primary checkout is on it; it cannot while a linked checkout holds it.
MergePr(p) ==
    LET r == proc[p] IN
    /\ r.pc = "m_pr"
    /\ UNCHANGED <<wt, sessions, issueStatus, runs>>
    /\ \E o \in Outcomes :
         LET r1 == Logged(r, "pr_merge", "gh", o) IN
         IF o = "ok"
         THEN /\ r.issue_id \notin {wt[q] : q \in LinkedPaths}
              /\ branches' = branches \ {r.issue_id}
              /\ primaryHead' = IF primaryHead = r.issue_id THEN "main" ELSE primaryHead
              /\ Goto(p, r1, "m_pull")
         ELSE /\ UNCHANGED <<branches, primaryHead>>
              /\ Return(p, r1, "err")

\* Faulty variant of MergePull: a failed pull is not checked.
MergePull_IgnoreFailure(p) ==
    LET r == proc[p] IN
    /\ r.pc = "m_pull"
    /\ UNCHANGED <<world, runs>>
    /\ \E o \in Outcomes : Goto(p, Logged(r, "pull", "git", o), "m_close")

\* lines 174-187: `git pull`; fatal on failure.
MergePull(p) ==
    LET r == proc[p] IN
    /\ r.pc = "m_pull"
    /\ UNCHANGED <<world, runs>>
    /\ \E o \in Outcomes :
         IF o = "ok" THEN Goto(p, Logged(r, "pull", "git", o), "m_close")
         ELSE Return(p, Logged(r, "pull", "git", o), "err")

\* close_issue (lines 197-241): the tracker after `bd close` / `gh issue
\* close` ran with outcome o.
IssueClosed(backend, issue_id, o) ==
    issueStatus' = IF o = "ok" THEN [issueStatus EXCEPT ![issue_id] = "closed"]
                   ELSE issueStatus

\* lines 189-194: close the issue; a failure is a warning.
MergeClose(p) ==
    LET r == proc[p] IN
    /\ r.pc = "m_close"
    /\ UNCHANGED <<wt, primaryHead, branches, sessions, runs>>
    /\ \E o \in Outcomes :
         /\ IssueClosed(r.backend, r.issue_id, o)
         /\ Return(p, Logged(r, "close", BackendTool(r.backend), o), "ok")

\* ------------------------------------------------- handle_done, handle_scan
\* Faulty variant of DoneKill: the command reports success but the session
\* the caller is in stays alive.
DoneKill_KeepsSession(p) ==
    LET r == proc[p] IN
    /\ r.pc = "done_cmd"
    /\ UNCHANGED <<world, runs>>
    /\ IF r.tmux # ""
       THEN \E o \in Outcomes :
              Return(p, Logged(r, "kill_session", "tmux", o),
                     IF o = "spawnfail" THEN "err" ELSE "ok")
       ELSE Return(p, r, "ok")

\* lines 110-125: inside tmux (TMUX is set), `tmux kill-session` ends the
\* session the caller is in; its exit status is dropped.
DoneKill(p) ==
    LET r == proc[p] IN
    /\ r.pc = "done_cmd"
    /\ UNCHANGED <<wt, primaryHead, branches, issueStatus, runs>>
    /\ IF r.tmux # ""
       THEN \E o \in Outcomes :
              /\ IF o = "ok"
                 THEN /\ sessions[r.tmux] # NoProc
                      /\ sessions' = [sessions EXCEPT ![r.tmux] = NoProc]
                 ELSE UNCHANGED sessions
              /\ Return(p, Logged(r, "kill_session", "tmux", o),
                        IF o = "spawnfail" THEN "err" ELSE "ok")
       ELSE /\ UNCHANGED sessions
            /\ Return(p, r, "ok")

\* lines 243-269: report the repository name; never fails.
Scan(p) ==
    LET r == proc[p] IN
    /\ r.pc = "scan"
    /\ UNCHANGED <<world, runs>>
    /\ Return(p, [r EXCEPT !.git_root = find_git_root(r.cwd)], "ok")

\* ------------------------------------------------------------ specification
Next ==
    \/ UserLaunch
    \/ AgentDone
    \/ \E p \in Procs : StartResolve(p)
    \/ \E p \in Procs : StartDerive(p)
    \/ \E p \in Procs : StartEnsure(p)
    \/ \E p \in Procs : StartAdd(p)
    \/ \E p \in Procs : StartDirenv(p)
    \/ \E p \in Procs : StartHooked(p)
    \/ \E p \in Procs : StartLaunch(p)
    \/ \E p \in Procs : StartAttach(p)
    \/ \E p \in Procs : StartAttachReturn(p)
    \/ \E p \in Procs : StartInProgress(p)
    \/ \E p \in Procs : StartCleanup(p)
    \/ \E p \in Procs : UnstartLocate(p)
    \/ \E p \in Procs : UnstartTarget(p)
    \/ \E p \in Procs : UnstartRemove(p)
    \/ \E p \in Procs : UnstartBranchDelete(p)
    \/ \E p \in Procs : UnstartShell(p)
    \/ \E p \in Procs : MergeLocate(p)
    \/ \E p \in Procs : MergeRelease(p)
    \/ \E p \in Procs : MergePr(p)
    \/ \E p \in Procs : MergePull(p)
    \/ \E p \in Procs : MergeClose(p)
    \/ \E p \in Procs : DoneKill(p)
    \/ \E p \in Procs : Scan(p)
    \/ \E s \in SessionNames : AgentExit(s)
    \/ \E b \in Ids \cup {"main"} : UserCheckout(b)

Spec == Init /\ [][Next]_vars

\* ------------------------------------------------ create_new_issue_github
\* Longest output of `gh issue create` drawn character by character.
MaxLen == 3

\* char::is_ascii_digit
Digits == {"0", "1", "2", "3", "4", "5", "6", "7", "8", "9"}

\* char::is_whitespace, as far as gh's output goes
Whitespace == {" ", "\n"}

\* The characters outputs are drawn from: digits, the separator, a letter,
\* a blank.
Chars == {"4", "2", "/", "x", " "}

\* "https://host/owner/repo/issues/42"
ExampleUrl ==
    <<"h", "t", "t", "p", "s", ":", "/", "/", "h", "o", "s", "t", "/",
      "o", "w", "n", "e", "r", "/", "r", "e", "p", "o", "/",
      "i", "s", "s", "u", "e", "s", "/", "4", "2">>

\* What gh can have printed: every short string, and the example with and
\* without the newline gh ends its output with.
Stdouts ==
    UNION {[1..n -> Chars] : n \in 0..MaxLen}
      \cup {ExampleUrl, ExampleUrl \o <<"\n">>}

\* str::trim (line 641)
RECURSIVE trim_start(_)
trim_start(s) ==
    IF s # <<>> /\ Head(s) \in Whitespace THEN trim_start(Tail(s)) ELSE s

RECURSIVE trim_end(_)
trim_end(s) ==
    IF s # <<>> /\ s[Len(s)] \in Whitespace
    THEN trim_end(SubSeq(s, 1, Len(s) - 1)) ELSE s

trim(s) == trim_end(trim_start(s))

\* url.rsplit('/').next() (lines 644-646): what follows the last '/', the
\* whole string when there is none; never None.
RECURSIVE rsplit_next(_)
rsplit_next(s) ==
    IF s = <<>> \/ s[Len(s)] = "/" THEN <<>>
    ELSE Append(rsplit_next(SubSeq(s, 1, Len(s) - 1)), s[Len(s)])

\* Faulty variant of extract_issue_number: any non-empty segment is taken.
extract_issue_number_AnySegment(out) ==
    LET issue_id == rsplit_next(trim(out)) IN
    IF issue_id = <<>> THEN [res |-> "err", id |-> <<>>]
    ELSE [res |-> "ok", id |-> issue_id]

\* lines 639-655: the issue number is taken from the URL gh printed.
extract_issue_number(out) ==
    LET url == trim(out)
        issue_id == rsplit_next(url)
    IN
    IF issue_id = <<>> \/ ~(\A k \in 1..Len(issue_id) : issue_id[k] \in Digits)
    THEN [res |-> "err", id |-> <<>>]
    ELSE [res |-> "ok", id |-> issue_id]

\* `gh issue create` has exited 0, having printed one of Stdouts.
GhInit ==
    /\ InitRepo
    /\ stdout \in Stdouts
    /\ created = NotParsed

\* create_new_issue_github from line 639 on.
GhCreate ==
    /\ created = NotParsed
    /\ created' = extract_issue_number(stdout)
    /\ UNCHANGED <<world, proc, runs, lastRet, stdout>>

GhNext == GhCreate

GhSpec == GhInit /\ [][GhNext]_vars

\* --------------------------------------------------- two users, one issue
\* Two terminals opened in the primary checkout: either of them runs
\* `start`, at any time.
RaceLaunch(p) ==
    /\ runs < MaxRuns
    /\ runs' = runs + 1
    /\ Launch(p, {"start"}, FALSE)
    /\ proc'[p].cwd = PrimaryRoot

RaceNext ==
    \/ \E p \in Procs : RaceLaunch(p)
    \/ \E p \in Procs : StartResolve(p)
    \/ \E p \in Procs : StartDerive(p)
    \/ \E p \in Procs : StartEnsure(p)
    \/ \E p \in Procs : StartAdd(p)
    \/ \E p \in Procs : StartDirenv(p)
    \/ \E p \in Procs : StartHooked(p)
    \/ \E p \in Procs : StartLaunch(p)
    \/ \E p \in Procs : StartAttach(p)
    \/ \E p \in Procs : StartAttachReturn(p)
    \/ \E p \in Procs : StartInProgress(p)
    \/ \E p \in Procs : StartCleanup(p)
    \/ \E s \in SessionNames : AgentExit(s)

RaceSpec == Init /\ [][RaceNext]_vars

\* ------------------------------------------- a session ended by `done`
\* The user runs `start` in the primary checkout; the agent it launches
\* runs `done` in its session.
LiveLaunch ==
    /\ runs < MaxRuns
    /\ runs' = runs + 1
    /\ Launch(User, {"start"}, FALSE)
    /\ proc'[User].cwd = PrimaryRoot

LiveNext ==
    \/ LiveLaunch
    \/ AgentDone
    \/ \E p \in Procs : StartResolve(p)
    \/ \E p \in Procs : StartDerive(p)
    \/ \E p \in Procs : StartEnsure(p)
    \/ \E p \in Procs : StartAdd(p)
    \/ \E p \in Procs : StartDirenv(p)
    \/ \E p \in Procs : StartHooked(p)
    \/ \E p \in Procs : StartLaunch(p)
    \/ \E p \in Procs : StartAttach(p)
    \/ \E p \in Procs : StartAttachReturn(p)
    \/ \E p \in Procs : StartInProgress(p)
    \/ \E p \in Procs : StartCleanup(p)
    \/ \E p \in Procs : DoneKill(p)
    \/ \E s \in SessionNames : AgentExit(s)

\* A running invocation executes its next statement (the process is
\* scheduled), and a blocked `tmux attach` returns once its session is gone.
\* Nothing obliges the user to detach or the agent to exit or to run `done`.
LiveFairness ==
    \A p \in Procs :
      /\ WF_vars(StartAttachReturn(p) /\ proc'[p].attach_ret = "ended")
      /\ WF_vars(StartInProgress(p))
      /\ WF_vars(StartCleanup(p))
      /\ WF_vars(DoneKill(p))

LiveSpec == Init /\ [][LiveNext]_vars /\ LiveFairness

\* ------------------------------------------------------------- properties
IsPrefix(s, t) == Len(s) <= Len(t) /\ SubSeq(t, 1, Len(s)) = s

\* The commands of r in order, leaving out those of the set S.
StepsWithout(r, S) == SelectSeq(StepNames(r), LAMBDA c : c \notin S)

\* The latest command of r ("" before the first).
LastStep(r) == IF Len(r.steps) = 0 THEN "" ELSE r.steps[Len(r.steps)].c

Ran(r, c) == \E k \in 1..Len(r.steps) : r.steps[k].c = c

\* The step orders of a complete `start`.
StartOrders ==
    {<<how, ensured, "hooked", "new_session", "attach", "in_progress", "wt_remove">> :
        how \in {"exists", "create"}, ensured \in {"wt_add", "reuse"}}

\* The side checkout of issue i beside the primary checkout.
SidePath(i) == DerivedPath(Parent(PrimaryRoot), FileName(PrimaryRoot), i)

\* C1: at every point of a `start` run the steps made so far are, in order,
\* an initial part of: issue resolved, side checkout ensured (added or
\* reused), status "hooked", session created, attached, status
\* "in_progress", worktree remove; a run that returns success has made all of
\* them.
C1_StartStepsInOrder ==
    \A p \in Procs :
      LET r == proc[p]
          done == StepsWithout(r, {"common_dir"})
      IN r.cmd = "start" =>
           /\ \E full \in StartOrders : IsPrefix(done, full)
           /\ (r.pc = "done" /\ r.result = "ok") => done \in StartOrders

\* A `start` that returned success after creating the side checkout.
C1_Witness ==
    \E p \in Procs :
      /\ proc[p].cmd = "start" /\ proc[p].pc = "done" /\ proc[p].result = "ok"
      /\ Ran(proc[p], "wt_add")

\* C2 (as claimed): when `unstart` for an id, run from the primary checkout
\* right after a `start` for that id returned success, has returned with its
\* commands having succeeded, there is no side checkout at the derived path,
\* no branch named after the id, and the working directory is the primary
\* root.
C2_StartThenUnstartLeavesNothing ==
    \A p \in Procs :
      LET r == proc[p] IN
      ( /\ r.cmd = "unstart" /\ r.pc = "done"
        /\ r.prev = [cmd |-> "start", id |-> r.issue_id, res |-> "ok"]
        /\ r.git_root = PrimaryRoot /\ ~r.is_worktree
        /\ r.last = "ok" )
      => /\ WtBranch(SidePath(r.issue_id)) = NoWt
         /\ r.issue_id \notin branches
         /\ r.cwd = PrimaryRoot

\* The worktree remove at the end of `start`, made by p in this step.
CleanupStep(p) ==
    /\ proc[p].cmd = "start" /\ proc[p].pc = "s_cleanup"
    /\ proc'[p].pc = "done"

\* C3 (as claimed): `start` never invokes worktree remove while the session
\* it created is alive.
C3_NoRemoveWhileSessionAlive ==
    [][\A p \in Procs :
         CleanupStep(p) => sessions[SessionName(proc[p].issue_id)] # p]_vars

\* C3 (amended): `start` invokes worktree remove only after the attach has
\* returned; if the attach returned because the session was gone, the session
\* `start` created is not alive then; it can be alive only when the attach
\* returned on a detach or with a non-zero exit.
C3_RemoveAfterAttachReturned ==
    [][\A p \in Procs :
         CleanupStep(p) =>
           /\ proc[p].attach_ret # "none"
           /\ Ran(proc[p], "attach")
           /\ sessions[SessionName(proc[p].issue_id)] = p
                => proc[p].attach_ret \in {"detached", "nonzero"}]_vars

\* A `start` has removed the side checkout after the user detached, and the
\* session it created is still alive.
C3_Witness ==
    \E p \in Procs :
      /\ proc[p].cmd = "start" /\ proc[p].pc = "done"
      /\ LastStep(proc[p]) = "wt_remove" /\ proc[p].last = "ok"
      /\ proc[p].attach_ret = "detached"
      /\ sessions[SessionName(proc[p].issue_id)] = p

\* C4: when the side-checkout directory exists as `start` comes to it, the
\* step adds no worktree, changes nothing in the repository and does not
\* fail: the run goes on towards the status update and the session; and a
\* run that reused the directory never ran worktree add.
C4_ReuseExistingCheckout ==
    [][\A p \in Procs :
         /\ ( /\ proc[p].pc = "s_ensure" /\ proc'[p].pc # "s_ensure"
              /\ DirExists(proc[p].path) )
            => /\ LastStep(proc'[p]) = "reuse"
               /\ proc'[p].pc = "s_direnv" /\ proc'[p].result = "none"
               /\ wt' = wt /\ branches' = branches
         /\ Ran(proc'[p], "reuse") => ~Ran(proc'[p], "wt_add")]_vars

\* A `start` reused an existing directory and went on to create the session.
C4_Witness ==
    \E p \in Procs :
      /\ proc[p].cmd = "start" /\ Ran(proc[p], "reuse")
      /\ Ran(proc[p], "hooked") /\ LastStep(proc[p]) = "new_session"
      /\ proc[p].pc = "s_attach"

\* C5: a `merge` whose repository root is a linked checkout has failed, and
\* has run no worktree remove, PR merge, pull or issue close.
C5_MergeInLinkedCheckoutFails ==
    \A p \in Procs :
      LET r == proc[p] IN
      (r.cmd = "merge" /\ r.is_worktree) =>
        /\ r.pc = "done" /\ r.result = "err"
        /\ ~\E c \in {"wt_remove", "pr_merge", "pull", "close"} : Ran(r, c)

\* A `merge` run in a linked checkout, whose primary root was found.
C5_Witness ==
    \E p \in Procs :
      /\ proc[p].cmd = "merge" /\ proc[p].is_worktree
      /\ proc[p].main_repo_path = PrimaryRoot /\ proc[p].pc = "done"

\* C6: in `merge` the PR merge comes before the pull and the pull before the
\* issue close; a failed PR merge or a failed pull ends the run with an error
\* at that step.
C6_MergeOrderAndAborts ==
    \A p \in Procs :
      LET r == proc[p] IN
      r.cmd = "merge" =>
        /\ IsPrefix(StepsWithout(r, {"common_dir", "wt_remove"}),
                    <<"pr_merge", "pull", "close">>)
        /\ (LastStep(r) \in {"pr_merge", "pull"} /\ r.last # "ok")
             => (r.pc = "done" /\ r.result = "err")
        /\ (LastStep(r) = "pr_merge" /\ r.last = "ok") => r.pc = "m_pull"
        /\ (LastStep(r) = "pull" /\ r.last = "ok") => r.pc = "m_close"

\* A `merge` whose pull failed after the PR was merged.
C6_Witness ==
    \E p \in Procs :
      /\ proc[p].cmd = "merge" /\ LastStep(proc[p]) = "pull"
      /\ proc[p].last = "nonzero" /\ proc[p].pc = "done"

\* C7 (as claimed): whatever way the pre-merge worktree remove fails, `merge`
\* goes on to the PR merge; and a `merge` that came to the issue close
\* returns success.
C7_BestEffortNeverAborts ==
    \A p \in Procs :
      LET r == proc[p] IN
      r.cmd = "merge" =>
        /\ (LastStep(r) = "wt_remove" /\ r.last # "ok") => r.pc = "m_pr"
        /\ LastStep(r) = "close" => (r.pc = "done" /\ r.result = "ok")

\* C8: for either backend, whatever the outcome of a status update of
\* `start`, the run neither returns nor fails there: after "hooked" it is at
\* the session launch, after "in_progress" at the worktree cleanup.
C8_StatusUpdateNeverDecides ==
    [][\A p \in Procs :
         /\ (proc[p].pc = "s_hooked" /\ proc'[p].pc # "s_hooked")
              => /\ LastStep(proc'[p]) = "hooked"
                 /\ proc'[p].pc = "s_launch" /\ proc'[p].result = "none"
         /\ (proc[p].pc = "s_in_progress" /\ proc'[p].pc # "s_in_progress")
              => /\ LastStep(proc'[p]) = "in_progress"
                 /\ proc'[p].pc = "s_cleanup" /\ proc'[p].result = "none"]_vars

\* The status update after the session returned an error, and `start` is at
\* its cleanup.
C8_Witness ==
    \E p \in Procs :
      /\ proc[p].cmd = "start" /\ LastStep(proc[p]) = "in_progress"
      /\ UpdateStatusErr(proc[p].backend, proc[p].last)
      /\ proc[p].pc = "s_cleanup"

\* `unstart` is past the choice of its target.
TargetChosen(r) == r.cmd = "unstart" /\ r.pc \in {"u_remove", "u_branch_del", "u_shell"}

\* C9: the target of `unstart` is the caller's own checkout root when the
\* caller is in a linked checkout on branch id, and otherwise the sibling of
\* the primary root named after it and the id, which exists; an `unstart`
\* that did not take its own checkout and found no directory there has failed
\* having run nothing but the queries for the primary root and the branch.
C9_UnstartTarget ==
    \A p \in Procs :
      LET r == proc[p] IN
      /\ (TargetChosen(r) /\ OwnCheckout(r)) => r.path = r.git_root
      /\ (r.cmd = "unstart" /\ r.pc = "u_remove" /\ ~OwnCheckout(r))
           => (r.path = SidePath(r.issue_id) /\ DirExists(r.path))
      /\ ( /\ r.cmd = "unstart" /\ r.pc = "done" /\ LastStep(r) = "cur_branch"
           /\ r.last # "spawnfail" )
           => /\ ~OwnCheckout(r)
              /\ r.result # "ok"
              /\ StepsWithout(r, {"common_dir"}) = <<"cur_branch">>
              /\ r.main_repo_path = PrimaryRoot => ~DirExists(SidePath(r.issue_id))

\* An `unstart` run in a linked checkout that is not at the derived path took
\* that checkout as its target.
C9_Witness ==
    \E p \in Procs :
      /\ TargetChosen(proc[p]) /\ OwnCheckout(proc[p])
      /\ proc[p].path = ExtraWt /\ proc[p].path # SidePath(proc[p].issue_id)

\* C10: an `unstart` that takes the caller's own checkout moves to the
\* primary root, then removes the worktree, then deletes the branch, then
\* spawns the shell, in the primary root; an `unstart` that took the derived
\* path neither moves nor spawns a shell.
C10_OwnCheckoutOrder ==
    \A p \in Procs :
      LET r == proc[p]
          after == StepsWithout(r, {"common_dir", "cur_branch"})
      IN
      r.cmd = "unstart" =>
        /\ IsPrefix(after, IF OwnCheckout(r)
                           THEN <<"chdir", "wt_remove", "branch_del", "shell">>
                           ELSE <<"wt_remove", "branch_del">>)
        /\ Ran(r, "shell") =>
             (after = <<"chdir", "wt_remove", "branch_del", "shell">>
                /\ r.cwd = PrimaryRoot /\ r.main_repo_path = PrimaryRoot)
        /\ (Ran(r, "wt_remove") /\ OwnCheckout(r)) => r.cwd = PrimaryRoot
        /\ (r.pc = "done" /\ r.result = "ok" /\ OwnCheckout(r)) => Ran(r, "shell")

\* `unstart 7` run in /w/acme-7 on branch 7 has returned from its shell.
C10_Witness ==
    \E p \in Procs :
      /\ proc[p].cmd = "unstart" /\ proc[p].pc = "done" /\ proc[p].result = "ok"
      /\ proc[p].issue_id = "7" /\ proc[p].path = <<"w", "acme-7">>
      /\ LastStep(proc[p]) = "shell" /\ proc[p].cwd = <<"w", "acme">>
      /\ WtBranch(<<"w", "acme-7">>) = NoWt /\ "7" \notin branches

\* C11: a non-zero exit of worktree remove makes `unstart` fail; as the
\* cleanup at the end of `start` it leaves `start` returning success; a
\* non-zero exit of worktree add makes `start` fail with no status update
\* and no session created.
C11_RemovalClassifiedByVerb ==
    \A p \in Procs :
      LET r == proc[p] IN
      /\ (r.cmd = "unstart" /\ LastStep(r) = "wt_remove" /\ r.last = "nonzero")
           => (r.pc = "done" /\ r.result = "err")
      /\ (r.cmd = "start" /\ LastStep(r) = "wt_remove" /\ r.last = "nonzero")
           => (r.pc = "done" /\ r.result = "ok")
      /\ (r.cmd = "start" /\ LastStep(r) = "wt_add" /\ r.last = "nonzero")
           => /\ r.pc = "done" /\ r.result = "err"
              /\ ~Ran(r, "hooked") /\ ~Ran(r, "new_session")

\* A `start` whose cleanup exited non-zero after its session ended has
\* returned success, the side checkout still there.
C11_Witness ==
    \E p \in Procs :
      /\ proc[p].cmd = "start" /\ proc[p].pc = "done" /\ proc[p].result = "ok"
      /\ LastStep(proc[p]) = "wt_remove" /\ proc[p].last = "nonzero"
      /\ proc[p].attach_ret = "ended"
      /\ WtBranch(proc[p].path) # NoWt

\* C12 (as claimed): an `unstart` whose worktree remove succeeded goes on to
\* the branch deletion as a step of its own, and no failure of the branch
\* deletion makes `unstart` fail: after it the run spawns its shell or
\* returns success.
C12_BranchDeleteNeverFatal ==
    \A p \in Procs :
      LET r == proc[p] IN
      r.cmd = "unstart" =>
        /\ (LastStep(r) = "wt_remove" /\ r.last = "ok") => r.pc = "u_branch_del"
        /\ (LastStep(r) = "branch_del" /\ r.last # "ok")
             => (r.pc = "u_shell" \/ (r.pc = "done" /\ r.result = "ok"))

\* C13 (as claimed): a non-zero exit of session creation makes `start` fail;
\* whatever way the attach fails (it cannot be run, or exits non-zero),
\* `start` goes on to the status update "in_progress" and the worktree
\* remove.
C13_AttachFailureNotFatal ==
    \A p \in Procs :
      LET r == proc[p] IN
      r.cmd = "start" =>
        /\ (LastStep(r) = "new_session" /\ r.last = "nonzero")
             => (r.pc = "done" /\ r.result = "err")
        /\ (LastStep(r) = "attach" /\ r.last # "ok")
             => (r.pc = "s_in_progress" /\ r.result = "none")

\* The issue operations of r all went to the tool of r's backend, and so
\* does the issue-view command of the agent's prompt.
OneBackend(r) ==
    /\ r.backend \in {"Beads", "GitHub"}
    /\ \A k \in 1..Len(r.steps) :
         r.steps[k].c \in {"exists", "create", "hooked", "in_progress", "close"}
           => r.steps[k].tool = (IF r.backend = "Beads" THEN "bd" ELSE "gh")
    /\ r.view # "" =>
         r.view = (IF r.backend = "Beads" THEN "bd show" ELSE "gh issue view")

\* C14: the backend of an invocation is selected when it is launched, Beads
\* or GitHub, and never changes while the invocation runs; every issue
\* operation of a `start` or `merge` (exists, create, status update, close)
\* and the issue-view command given to the agent use that backend.
C14_OneBackendPerInvocation ==
    [][\A p \in Procs :
         /\ Running(p) => proc'[p].backend = proc[p].backend
         /\ proc'[p].cmd \in {"start", "merge"} => OneBackend(proc'[p])]_vars

\* A `start` on the GitHub backend has checked the issue, set both statuses
\* and created the session, each with gh.
C14_Witness ==
    \E p \in Procs :
      /\ proc[p].cmd = "start" /\ proc[p].backend = "GitHub"
      /\ proc[p].pc = "s_cleanup"
      /\ proc[p].view = "gh issue view"
      /\ \A c \in {"exists", "hooked", "in_progress"} :
           \E k \in 1..Len(proc[p].steps) :
             proc[p].steps[k] = [c |-> c, tool |-> "gh"]

\* C15: the directory `start` derives is named <primary name>-<id>, the
\* branch worktree add creates there is <id>, the session it creates is
\* fuzemill-<id>, on every derivation; for /w/acme and id 7 they are
\* /w/acme-7, 7 and fuzemill-7.
C15_DerivedNames ==
    [][\A p \in Procs :
         LET r == proc[p]
             n == proc'[p]
         IN
         /\ (r.pc = "s_common" /\ n.pc = "s_ensure")
              => /\ FileName(n.path) = FileName(PrimaryRoot) \o "-" \o n.issue_id
                 /\ (n.git_root = <<"w", "acme">> /\ n.issue_id = "7")
                      => n.path = <<"w", "acme-7">>
         /\ (r.pc = "s_add" /\ n.pc = "s_direnv")
              => /\ wt' = [wt EXCEPT ![r.path] = r.issue_id]
                 /\ branches' = branches \cup {r.issue_id}
         /\ (r.pc = "s_launch" /\ n.pc = "s_attach")
              => /\ sessions' = [sessions EXCEPT !["fuzemill-" \o r.issue_id] = p]
                 /\ sessions["fuzemill-" \o r.issue_id] = NoProc
                 /\ r.issue_id = "7" => sessions'["fuzemill-7"] = p]_vars

\* A second `start --id 7` in /w/acme has come to the same directory
\* /w/acme-7 on branch 7 as the one before it, and has created fuzemill-7.
C15_Witness ==
    \E p \in Procs :
      /\ proc[p].cmd = "start" /\ proc[p].issue_id = "7"
      /\ proc[p].prev = [cmd |-> "start", id |-> "7", res |-> "ok"]
      /\ proc[p].git_root = <<"w", "acme">>
      /\ proc[p].path = <<"w", "acme-7">>
      /\ wt[<<"w", "acme-7">>] = "7" /\ "7" \in branches
      /\ proc[p].pc = "s_attach" /\ sessions["fuzemill-7"] = p

\* C16 (as claimed): wherever `start` is run from, the side checkout it
\* creates or reuses for an id is at join(parent of the primary root,
\* <primary name>-<id>), the path `unstart` and `merge` derive for that id
\* from the primary checkout.
C16_StartPathFromPrimaryRoot ==
    \A p \in Procs :
      LET r == proc[p] IN
      (r.cmd = "start" /\ (Ran(r, "wt_add") \/ Ran(r, "reuse")))
        => r.path = Join(Parent(PrimaryRoot),
                         FileName(PrimaryRoot) \o "-" \o r.issue_id)

\* `start` has read its arguments in this step.
ResolveStep(p) == proc[p].pc = "start" /\ proc'[p].pc # "start"

\* C17 (as claimed): `start` goes past its arguments only when exactly one
\* of an id and creation arguments was supplied.
C17_ExactlyOneOfIdAndArgs ==
    \A p \in Procs :
      (proc[p].cmd = "start" /\ proc[p].pc = "s_common")
        => proc[p].args \in {"id", "create"}

\* C17 (amended): `start` goes past its arguments when an id was supplied,
\* creation arguments given with it being ignored (the id is checked, no
\* issue is created), or when creation arguments were supplied without an
\* id; with neither it fails having run no command and changed nothing.
C17_IdOrArgs ==
    [][\A p \in Procs :
         ResolveStep(p) =>
           LET n == proc'[p] IN
           /\ n.args = "none"
                => /\ n.pc = "done" /\ n.result = "err"
                   /\ n.steps = <<>>
                   /\ world' = world
           /\ n.args \in {"id", "both"}
                => /\ StepNames(n) = <<"exists">>
                   /\ n.pc = "s_common" <=> n.last = "ok"
           /\ n.args = "create"
                => /\ StepNames(n) = <<"create">>
                   /\ n.pc = "s_common" <=> n.last = "ok"
           /\ n.pc = "s_common" => n.args \in {"id", "both", "create"}]_vars

\* A `start` given neither an id nor creation arguments, in /w/acme, has
\* failed.
C17_Witness ==
    \E p \in Procs :
      /\ proc[p].cmd = "start" /\ proc[p].args = "none"
      /\ proc[p].git_root = <<"w", "acme">>
      /\ proc[p].pc = "done" /\ proc[p].result = "err"

\* seg is the trailing path segment of url: what follows its last '/'.
IsTrailingSegment(seg, url) ==
    \E k \in 0..Len(url) :
      /\ seg = SubSeq(url, k + 1, Len(url))
      /\ k > 0 => url[k] = "/"
      /\ \A j \in 1..Len(seg) : seg[j] # "/"

\* C18: the id create_new_issue_github returns is the trailing path segment
\* of the URL gh printed when that segment is non-empty and all decimal
\* digits; for every other URL it returns an error and no id; and
\* https://host/owner/repo/issues/42 yields 42.
C18_IssueNumberFromUrl ==
    created.res # "none" =>
      /\ \A seg \in {SubSeq(trim(stdout), k, Len(trim(stdout))) :
                       k \in 1..Len(trim(stdout)) + 1} :
           IsTrailingSegment(seg, trim(stdout)) =>
             IF seg # <<>> /\ \A j \in 1..Len(seg) : seg[j] \in Digits
             THEN created = [res |-> "ok", id |-> seg]
             ELSE created = [res |-> "err", id |-> <<>>]
      /\ \E k \in 1..Len(trim(stdout)) + 1 :
           IsTrailingSegment(SubSeq(trim(stdout), k, Len(trim(stdout))), trim(stdout))
      /\ trim(stdout) = ExampleUrl => created = [res |-> "ok", id |-> <<"4", "2">>]

\* The example URL, printed with its newline, gave the id 42.
C18_Witness ==
    /\ stdout = ExampleUrl \o <<"\n">>
    /\ created = [res |-> "ok", id |-> <<"4", "2">>]

\* C19 (as claimed): a `done` that has returned has run the session kill if
\* and only if it was run inside a session, has run nothing else, and has
\* returned success.
C19_DoneKillsIffInside ==
    \A p \in Procs :
      LET r == proc[p] IN
      (r.cmd = "done" /\ r.pc = "done") =>
        /\ r.tmux # "" => StepNames(r) = <<"kill_session">>
        /\ r.tmux = "" => r.steps = <<>>
        /\ r.result = "ok"

\* p and q are two `start` invocations come to the same side checkout for
\* the same issue.
SameCheckout(p, q) ==
    /\ p # q
    /\ proc[p].cmd = "start" /\ proc[q].cmd = "start"
    /\ proc[p].issue_id = proc[q].issue_id
    /\ proc[p].path # <<>> /\ proc[p].path = proc[q].path

\* C20: nothing in `start` guards two invocations for one issue against
\* each other.  When both have seen the directory absent, either one's
\* worktree add can succeed, and the other then still invokes worktree add
\* for that path and branch, which only git turns down; and when one is at
\* its cleanup while the session of the other is alive in the checkout, its
\* worktree remove can go through.
C20_StartsNotGuarded ==
    \A p, q \in Procs :
      SameCheckout(p, q) =>
        /\ ( /\ proc[p].pc = "s_add" /\ proc[q].pc = "s_add"
             /\ ~DirExists(proc[p].path) /\ proc[p].issue_id \notin branches
             /\ GitCanRun(proc[p]) )
             => ENABLED (StartAdd(p) /\ proc'[p].pc = "s_direnv")
        /\ ( /\ proc[q].pc = "s_add" /\ Ran(proc[p], "wt_add")
             /\ DirExists(proc[q].path) )
             => /\ ENABLED (StartAdd(q) /\ LastStep(proc'[q]) = "wt_add")
                /\ ~ENABLED (StartAdd(q) /\ proc'[q].pc = "s_direnv")
        /\ ( /\ proc[p].pc = "s_cleanup" /\ proc[q].pc = "s_attach"
             /\ sessions[SessionName(proc[q].issue_id)] = q
             /\ WtBranch(proc[p].path) # NoWt /\ GitCanRun(proc[p]) )
             => ENABLED (StartCleanup(p) /\ wt'[proc[p].path] = NoWt)

\* Both invocations have invoked worktree add for the same path and branch:
\* one has created the checkout, the other has just been turned down.
C20_BothInvokedAdd ==
    \E p, q \in Procs :
      /\ SameCheckout(p, q)
      /\ Ran(proc[p], "wt_add") /\ proc[p].pc # "done"
      /\ LastStep(proc[q]) = "wt_add" /\ proc[q].last = "nonzero"
      /\ proc[q].pc = "done"

\* One invocation's cleanup has removed the side checkout while the session
\* the other created is alive in it.
C20_Witness ==
    \E p, q \in Procs :
      /\ SameCheckout(p, q)
      /\ proc[p].pc = "done" /\ LastStep(proc[p]) = "wt_remove"
      /\ proc[p].last = "ok"
      /\ proc[q].pc = "s_attach" /\ Ran(proc[q], "reuse")
      /\ sessions[SessionName(proc[q].issue_id)] = q
      /\ WtBranch(proc[q].path) = NoWt

\* C21 (as claimed): in a linked checkout, whatever way the query for the
\* shared metadata directory fails (it cannot be run, or exits non-zero
\* having printed no path), the command returns an error there and goes no
\* further.
C21_CommonDirFailureFatal ==
    \A p \in Procs :
      LET r == proc[p] IN
      ( /\ r.cmd \in {"start", "unstart", "merge"}
        /\ Ran(r, "common_dir") /\ r.main_repo_path = <<>> )
        => /\ r.pc = "done" /\ r.result = "err"
           /\ LastStep(r) = "common_dir"


\* `done` has been invoked by process q inside the session of issue id while
\* the `start` of process p for that issue is blocked in attach.
DoneInvoked(p, q, id) ==
    /\ proc[p].cmd = "start" /\ proc[p].pc = "s_attached"
    /\ proc[p].issue_id = id
    /\ proc[q].cmd = "done" /\ proc[q].tmux = SessionName(id)

\* `start` of process p for issue id has terminated after the session ended,
\* having performed the update to "in_progress" and then the removal.
StartFinished(p, id) ==
    /\ proc[p].cmd = "start" /\ proc[p].pc = "done"
    /\ proc[p].issue_id = id
    /\ proc[p].attach_ret = "ended"
    /\ Ran(proc[p], "in_progress") /\ LastStep(proc[p]) = "wt_remove"

C22_Released ==
    \E p \in Procs : \E id \in Ids :
      /\ StartFinished(p, id) /\ proc[p].last = "ok"
      /\ WtBranch(proc[p].path) = NoWt


\* C23: when the existence check of a given id fails, or the creation of an
\* issue fails or yields no usable id, that step ends `start` with an error:
\* it changes nothing in the repository, the tracker or tmux, and the run has
\* invoked nothing else (no worktree add, no status update, no session).
C23_ResolveFailureStopsStart ==
    [][\A p \in Procs :
         ( /\ proc[p].pc = "start" /\ proc'[p].pc # "start"
           /\ LastStep(proc'[p]) \in {"exists", "create"}
           /\ proc'[p].last # "ok" )
           => /\ proc'[p].pc = "done" /\ proc'[p].result = "err"
              /\ world' = world
              /\ Len(proc'[p].steps) = 1
              /\ ~Ran(proc'[p], "wt_add") /\ ~Ran(proc'[p], "hooked")
              /\ ~Ran(proc'[p], "new_session")]_vars

\* A `start --id` has failed at the existence check, with no side checkout
\* and no session made.
C23_Witness ==
    \E p \in Procs :
      /\ proc[p].cmd = "start" /\ proc[p].pc = "done"
      /\ proc[p].result = "err" /\ proc[p].args = "id"
      /\ LastStep(proc[p]) = "exists" /\ proc[p].last = "nonzero"
      /\ lastRet.cmd = "start" /\ lastRet.res = "err"
      /\ \A q \in LinkedPaths \ {ExtraWt} : wt[q] = NoWt
      /\ \A s \in SessionNames : sessions[s] = NoProc


\* C24: no step of `start` deletes a branch; when a `start` has completed
\* with its removal successful, the side checkout is absent and branch <id>
\* exists; a branch disappears only in the branch deletion of an `unstart`
\* or in the PR merge of a `merge` for that id; and a `start` that finds its
\* path absent goes on to invoke `git worktree add -b <id>`, also when the
\* branch is there already.
C24_BranchOutlivesStart ==
    [][/\ \A p \in Procs :
            (proc[p].cmd = "start" /\ proc'[p].pc # proc[p].pc)
              => branches \subseteq branches'
       /\ \A p \in Procs :
            ( /\ proc'[p].cmd = "start" /\ proc'[p].pc = "done"
              /\ LastStep(proc'[p]) = "wt_remove" /\ proc'[p].last = "ok" )
              => /\ wt'[proc'[p].path] = NoWt
                 /\ proc'[p].issue_id \in branches'
       /\ \A b \in Ids :
            (b \in branches /\ b \notin branches')
              => \E p \in Procs :
                   /\ proc[p].issue_id = b
                   /\ proc'[p].pc # proc[p].pc
                   /\ \/ proc[p].cmd = "unstart" /\ proc[p].pc = "u_branch_del"
                      \/ proc[p].cmd = "merge" /\ proc[p].pc = "m_pr"
       /\ \A p \in Procs :
            ( /\ proc[p].pc = "s_ensure" /\ proc'[p].pc # "s_ensure"
              /\ ~DirExists(proc[p].path) )
              => proc'[p].pc = "s_add"
       /\ \A p \in Procs :
            (proc[p].pc = "s_add" /\ proc'[p].pc # "s_add")
              => /\ LastStep(proc'[p]) = "wt_add"
                 /\ Len(proc'[p].steps) = Len(proc[p].steps) + 1]_vars

\* After a `start` for an id has completed, a second `start` for the same id
\* from the same place has found the path absent and the branch present, and
\* has invoked worktree creation again.
C24_Witness ==
    \E p \in Procs :
      /\ proc[p].cmd = "start" /\ LastStep(proc[p]) = "wt_add"
      /\ proc[p].prev = [cmd |-> "start", id |-> proc[p].issue_id, res |-> "ok"]
      /\ proc[p].issue_id \in branches
      /\ WtBranch(proc[p].path) = NoWt
      /\ proc[p].path \in LinkedPaths


\* The step in which `start` of process p fails at the launch.
LaunchFailed(p) == proc[p].pc = "s_launch" /\ proc'[p].pc = "done"

\* What a failed launch leaves alone: the step changes nothing in the
\* repository, the tracker or tmux, the run has invoked no worktree removal
\* and no second status update, and the side checkout and branch <id> are
\* there at the end of the run.
LaunchFailureFrame(p) ==
    /\ proc'[p].result = "err"
    /\ world' = world
    /\ ~Ran(proc'[p], "wt_remove") /\ ~Ran(proc'[p], "in_progress")
    /\ WtBranch(proc[p].path) = proc[p].issue_id
    /\ proc[p].issue_id \in branches

\* C25 (as claimed): a `start` that fails at the launch step undoes nothing
\* and ends with the issue status at "hooked".
C25_LaunchFailureLeavesHooked ==
    [][\A p \in Procs :
         LaunchFailed(p)
           => /\ LaunchFailureFrame(p)
              /\ issueStatus'[proc[p].issue_id] = "hooked"]_vars

\* C25: a `start` that fails at the launch step (unknown agent kind, session
\* creation exiting non-zero or not runnable) undoes nothing: no worktree
\* removal and no further status update are performed, the side checkout and
\* its branch are present at the end of the run, and the issue status is as
\* the update to "hooked" left it: "hooked" if that update succeeded.
C25_LaunchFailureUndoesNothing ==
    [][\A p \in Procs :
         LaunchFailed(p)
           => /\ LaunchFailureFrame(p)
              /\ LastStep(proc[p]) = "hooked"
              /\ proc[p].last = "ok"
                   => issueStatus'[proc[p].issue_id] = "hooked"]_vars

\* A `start` has failed at session creation because a session of that name
\* was alive; the side checkout, the branch and the status "hooked" remain.
C25_Witness ==
    \E p \in Procs :
      /\ proc[p].cmd = "start" /\ proc[p].pc = "done" /\ proc[p].result = "err"
      /\ LastStep(proc[p]) = "new_session" /\ proc[p].last = "nonzero"
      /\ sessions[SessionName(proc[p].issue_id)] # NoProc
      /\ WtBranch(proc[p].path) = proc[p].issue_id
      /\ proc[p].issue_id \in branches
      /\ issueStatus[proc[p].issue_id] = "hooked"


\* C26 (as claimed): an `unstart` that got past the worktree removal returns
\* failure exactly when the subshell of the own-checkout case, spawned last,
\* failed; in the own-checkout case the subshell is always reached.
C26_ShellDecidesResult ==
    \A p \in Procs :
      LET r == proc[p] IN
      (r.cmd = "unstart" /\ r.pc = "done" /\ Ran(r, "branch_del"))
        => /\ OwnCheckout(r) => LastStep(r) = "shell"
           /\ r.result = IF LastStep(r) = "shell" /\ r.last # "ok"
                         THEN "err" ELSE "ok"

====
